---- MODULE Spec2Model ----
(***************************************************************************)
(* Model of modules/planning/common/planning_util.cc: the three            *)
(* interpolate() overloads (PathPoint, TrajectoryPoint, SLPoint), the      *)
(* GetPlanningState() accessor and DumpPlanningContext().                  *)
(*                                                                         *)
(* Numbers.  A double is modelled as a fixed-point integer: arithmetic is  *)
(* integer arithmetic and every quotient is rounded to an integer, as a    *)
(* double result is rounded to a representable value.  Angles are in units *)
(* of 0.01 rad, so pi is 314 and 3.0 rad is 300.  cos and sin return values*)
(* scaled by TrigScale; x and y are therefore held in 1/TrigScale of the   *)
(* arc-length unit.  The trajectory's arc length is held in units of half  *)
(* the 1.0e-4 tolerance, so that "different but within tolerance" exists.  *)
(* NaN stands for the IEEE not-a-number; every comparison with a value     *)
(* that may be NaN is false, as in IEEE arithmetic.                        *)
(***************************************************************************)
EXTENDS Integers, Sequences, FiniteSets, TLC

VARIABLES call, guard, constructed, state, pc, ref, seen,
          latest, enable_prediction, sink, dumps

vars == <<call, guard, constructed, state, pc, ref, seen,
          latest, enable_prediction, sink, dumps>>

----------------------------------------------------------------------------
(* Arithmetic helpers *)

NaN == 0 - 1000000

IsNaN(d) == d = NaN

Abs(n) == IF n < 0 THEN 0 - n ELSE n

\* std::abs(a - b) < eps on doubles: false as soon as an operand is NaN
AbsDiffLess(a, b, eps) ==
    IF IsNaN(a) \/ IsNaN(b) THEN FALSE ELSE Abs(a - b) < eps

\* n / d rounded to the nearest integer
RoundDiv(n, d) ==
    IF d > 0 THEN (n + d \div 2) \div d ELSE ((0 - n) + (0 - d) \div 2) \div (0 - d)

\* a <= b on doubles
LessEq(a, b) == IF IsNaN(a) \/ IsNaN(b) THEN FALSE ELSE a <= b

\* resolution of the normalised spline abscissa z in [0, 1]
Frac == 1000

\* resolution of a quadrature abscissa within one model unit
Fine == 1000

\* scale of the values of cos and sin
TrigScale == 100

PI == 314

----------------------------------------------------------------------------
(* common::math::NormalizeAngle: the angle brought into (-pi, pi] *)

NormalizeAngle(angle) ==
    LET m == (angle + PI) % (2 * PI)
    IN  IF m = 0 THEN PI ELSE m - PI

(* std::sin, std::cos on an angle in 0.01 rad, scaled by TrigScale         *)
(* (rational approximation 16u(pi-u) / (5 pi^2 - 4u(pi-u)) on [0, pi]).    *)

SinHalf(u) ==
    RoundDiv(16 * u * (PI - u) * TrigScale, 5 * PI * PI - 4 * u * (PI - u))

Sin(theta) ==
    LET n == NormalizeAngle(theta)
    IN  IF n >= 0 THEN SinHalf(n) ELSE 0 - SinHalf(0 - n)

Cos(theta) == Sin(theta + PI \div 2)

----------------------------------------------------------------------------
(* HermiteSpline<double, N>: the polynomial of degree N matching (N+1)/2   *)
(* derivatives at z0 and at z1.  Basis polynomials in z = (x - z0)/(z1-z0),*)
(* coefficients doubled to be integral, lowest degree first.  The fit is   *)
(* defined for z0 # z1 only; no call of the model fits an empty domain.    *)

RECURSIVE Pow(_, _)
Pow(b, e) == IF e = 0 THEN 1 ELSE b * Pow(b, e - 1)

\* floor(a * z / Frac), without forming a * z
FixMul(a, z) == (a \div Frac) * z + ((a % Frac) * z) \div Frac

\* d/dz of a coefficient sequence
PolyDeriv(c) == [j \in 1..(Len(c) - 1) |-> j * c[j + 1]]

RECURSIVE PolyDerivN(_, _)
PolyDerivN(c, k) == IF k = 0 \/ Len(c) = 0 THEN c ELSE PolyDerivN(PolyDeriv(c), k - 1)

\* Horner's rule from coefficient j on; z and the value in fixed point (scale Frac)
RECURSIVE Horner(_, _, _)
Horner(c, z, j) ==
    IF j > Len(c) THEN 0 ELSE c[j] * Frac + FixMul(Horner(c, z, j + 1), z)

PolyEval(c, z) == Horner(c, z, 1)

\* basis of the boundary value of derivative order r-1 at z0 (left) and z1 (right)
HermiteBasis(n) ==
    IF n = 3
    THEN [left  |-> << <<2, 0, 0 - 6, 4>>, <<0, 2, 0 - 4, 2>> >>,
          right |-> << <<0, 0, 6, 0 - 4>>, <<0, 0, 0 - 2, 2>> >>]
    ELSE [left  |-> << <<2, 0, 0, 0 - 20, 30, 0 - 12>>,
                       <<0, 2, 0, 0 - 12, 16, 0 - 6>>,
                       <<0, 0, 1, 0 - 3, 3, 0 - 1>> >>,
          right |-> << <<0, 0, 0, 20, 0 - 30, 12>>,
                       <<0, 0, 0, 0 - 8, 14, 0 - 6>>,
                       <<0, 0, 0, 1, 0 - 2, 1>> >>]

\* the terms of one boundary, over the common denominator 2 * Frac * h^k:
\* boundary value x[r] of derivative order r-1, basis bs[r] differentiated k times
RECURSIVE HermiteSide(_, _, _, _, _, _)
HermiteSide(x, bs, r, k, z, h) ==
    IF r > Len(x) THEN 0
    ELSE x[r] * PolyEval(PolyDerivN(bs[r], k), z) * Pow(h, r - 1)
         + HermiteSide(x, bs, r + 1, k, z, h)

\* HermiteSpline<double, n>(x0, x1, z0, z1).Evaluate(order, xf / Fine)
HermiteEvaluate(n, x0, x1, z0, z1, order, xf) ==
    LET h == z1 - z0
        z == ((xf - z0 * Fine) * Frac) \div (h * Fine)
        B == HermiteBasis(n)
    IN  RoundDiv(HermiteSide(x0, B.left, 1, order, z, h)
                 + HermiteSide(x1, B.right, 1, order, z, h),
                 2 * Frac * Pow(h, order))

----------------------------------------------------------------------------
(* common::math::IntegrateByGaussLegendre<5>(func, a, b): the five-node    *)
(* rule, nodes and weights in thousandths (the weights sum to 2000);       *)
(* 0 over an empty interval.                                               *)

GaussNodes == <<0 - 906, 0 - 538, 0, 538, 906>>

GaussWeights == <<237, 479, 568, 479, 237>>

\* the i-th sample abscissa of [a, b], in 1/Fine
GaussAbscissa(a, b, i) == a * Fine + ((b - a) * Fine * (1000 + GaussNodes[i])) \div 2000

GaussIndex == 1..Len(GaussNodes)

RECURSIVE GaussSum(_, _)
GaussSum(f, i) ==
    IF i > Len(GaussNodes) THEN 0 ELSE GaussWeights[i] * f[i] + GaussSum(f, i + 1)

\* f: the values of func at the five sample abscissas of [a, b]
IntegrateByGaussLegendre(f, a, b) ==
    IF a = b THEN 0 ELSE RoundDiv((b - a) * GaussSum(f, 1), 2000)

----------------------------------------------------------------------------
(* interpolate(const PathPoint &p0, const PathPoint &p1, const double s)   *)

NoPoint == <<>>

\* the check with strict bounds: a query at an endpoint is refused
PathCheck_Strict(s0, s, s1) == LessEq(s0, s) /\ LessEq(s, s1) /\ s0 # s /\ s # s1

\* CHECK(s0 <= s && s <= s1)
PathCheck(s0, s, s1) == LessEq(s0, s) /\ LessEq(s, s1)

\* the heading difference left unwrapped
ThetaDiff_Raw(p0, p1) == p1.theta - p0.theta

ThetaDiff(p0, p1) == NormalizeAngle(p1.theta - p0.theta)

PathGx0(p0) == <<0, p0.kappa, p0.dkappa>>

PathGx1(p0, p1) == <<ThetaDiff(p0, p1), p1.kappa, p1.dkappa>>

\* geometry_spline.Evaluate(order, xf / Fine)
PathSpline(p0, p1, order, xf) ==
    HermiteEvaluate(5, PathGx0(p0), PathGx1(p0, p1), p0.s, p1.s, order, xf)

\* the heading of p0 not added back to the relative heading
PathTheta_Relative(p0, p1, s) == NormalizeAngle(PathSpline(p0, p1, 0, s * Fine))

PathTheta(p0, p1, s) == NormalizeAngle(PathSpline(p0, p1, 0, s * Fine) + p0.theta)

PathX(p0, p1, s) ==
    LET func_cos_theta(xf) == Cos(PathSpline(p0, p1, 0, xf) + p0.theta)
        samples == [i \in GaussIndex |-> func_cos_theta(GaussAbscissa(p0.s, s, i))]
    IN  p0.x + IntegrateByGaussLegendre(samples, p0.s, s)

PathY(p0, p1, s) ==
    LET func_sin_theta(xf) == Sin(PathSpline(p0, p1, 0, xf) + p0.theta)
        samples == [i \in GaussIndex |-> func_sin_theta(GaussAbscissa(p0.s, s, i))]
    IN  p0.y + IntegrateByGaussLegendre(samples, p0.s, s)

\* outcome "fatal": the CHECK failed, nothing was fitted or returned
InterpolatePathPoint(p0, p1, s) ==
    IF ~PathCheck(p0.s, s, p1.s)
    THEN [outcome |-> "fatal", fits |-> 0, gx1 |-> <<>>, p |-> NoPoint]
    ELSE [outcome |-> "returned", fits |-> 1, gx1 |-> PathGx1(p0, p1),
          p |-> [x       |-> PathX(p0, p1, s),
                 y       |-> PathY(p0, p1, s),
                 theta   |-> PathTheta(p0, p1, s),
                 kappa   |-> PathSpline(p0, p1, 1, s * Fine),
                 dkappa  |-> PathSpline(p0, p1, 2, s * Fine),
                 ddkappa |-> PathSpline(p0, p1, 3, s * Fine),
                 s       |-> s]]

----------------------------------------------------------------------------
(* interpolate(const TrajectoryPoint &tp0, const TrajectoryPoint &tp1,     *)
(*             const double t)                                             *)

\* the tolerance 1.0e-4, in arc-length units of 0.5e-4
Eps == 2

\* the two arc lengths compared for equality instead of within the tolerance
DegenerateSpan_Exact(tp0, tp1) ==
    AbsDiffLess(tp0.path_point.s, tp1.path_point.s, 1)

\* line 84: both operands are tp0's arc length
DegenerateSpan(tp0, tp1) ==
    AbsDiffLess(tp0.path_point.s, tp0.path_point.s, Eps)

\* dynamic_spline.Evaluate(order, xf / Fine)
DynamicSpline(tp0, tp1, order, xf) ==
    HermiteEvaluate(3, <<tp0.v, tp0.a>>, <<tp1.v, tp1.a>>,
                    tp0.relative_time, tp1.relative_time, order, xf)

\* s1: the speed integrated over [t0, t1]
TrajS1(tp0, tp1) ==
    LET func_v(xf) == DynamicSpline(tp0, tp1, 0, xf)
        t0 == tp0.relative_time
        t1 == tp1.relative_time
        samples == [i \in GaussIndex |-> func_v(GaussAbscissa(t0, t1, i))]
    IN  IntegrateByGaussLegendre(samples, t0, t1)

\* s: the speed integrated over [t0, t]
TrajS(tp0, tp1, t) ==
    LET func_v(xf) == DynamicSpline(tp0, tp1, 0, xf)
        t0 == tp0.relative_time
        samples == [i \in GaussIndex |-> func_v(GaussAbscissa(t0, t, i))]
    IN  IntegrateByGaussLegendre(samples, t0, t)

\* line 104
NoDisplacement(tp0, s1) == AbsDiffLess(tp0.path_point.s, s1, Eps)

\* geometry_spline.Evaluate(order, xf / Fine), fitted over [0, s1]
TrajGeometry(tp0, tp1, s1, order, xf) ==
    HermiteEvaluate(3, <<tp0.path_point.theta, tp0.path_point.kappa>>,
                    <<tp1.path_point.theta, tp1.path_point.kappa>>,
                    0, s1, order, xf)

TrajX(tp0, tp1, s1, s) ==
    LET func_cos_theta(xf) == Cos(TrajGeometry(tp0, tp1, s1, 0, xf))
        samples == [i \in GaussIndex |-> func_cos_theta(GaussAbscissa(0, s, i))]
    IN  tp0.path_point.x + IntegrateByGaussLegendre(samples, 0, s)

TrajY(tp0, tp1, s1, s) ==
    LET func_sin_theta(xf) == Sin(TrajGeometry(tp0, tp1, s1, 0, xf))
        samples == [i \in GaussIndex |-> func_sin_theta(GaussAbscissa(0, s, i))]
    IN  tp0.path_point.y + IntegrateByGaussLegendre(samples, 0, s)

\* a default-constructed TrajectoryPoint message: every field unset, read as 0
DefaultTrajectoryPoint ==
    [path_point |-> [x |-> 0, y |-> 0, theta |-> 0, kappa |-> 0, dkappa |-> 0,
                     ddkappa |-> 0, s |-> 0],
     v |-> 0, a |-> 0, relative_time |-> 0]

\* lines 108-146: v, a and the path point are set; nothing else is
AssembleTrajectoryPoint(tp0, tp1, t, s1, s) ==
    [DefaultTrajectoryPoint EXCEPT
       !.v = DynamicSpline(tp0, tp1, 0, t * Fine),
       !.a = DynamicSpline(tp0, tp1, 1, t * Fine),
       !.path_point = [x       |-> TrajX(tp0, tp1, s1, s),
                       y       |-> TrajY(tp0, tp1, s1, s),
                       theta   |-> TrajGeometry(tp0, tp1, s1, 0, s * Fine),
                       kappa   |-> TrajGeometry(tp0, tp1, s1, 1, s * Fine),
                       dkappa  |-> TrajGeometry(tp0, tp1, s1, 2, s * Fine),
                       ddkappa |-> TrajGeometry(tp0, tp1, s1, 3, s * Fine),
                       s       |-> s]]

\* via: the line of the return statement taken (85, 105 or 146);
\* fits: the number of splines fitted before it
InterpolateTrajectoryPoint(tp0, tp1, t) ==
    IF DegenerateSpan(tp0, tp1)
    THEN [via |-> 85, fits |-> 0, tp |-> tp1]
    ELSE LET s1 == TrajS1(tp0, tp1)
             s  == TrajS(tp0, tp1, t)
         IN  IF NoDisplacement(tp0, s1)
             THEN [via |-> 105, fits |-> 1, tp |-> tp1]
             ELSE [via |-> 146, fits |-> 2,
                   tp |-> AssembleTrajectoryPoint(tp0, tp1, t, s1, s)]

----------------------------------------------------------------------------
(* interpolate(const common::SLPoint &start, const common::SLPoint &end,   *)
(*             const double weight)                                        *)

\* a weight is held in units of 1/WeightScale
WeightScale == 4

\* the product of a value and a weight, rounded to the nearest value
RoundedProduct(v, w) == (2 * v * w + WeightScale) \div (2 * WeightScale)

\* the two weights exchanged
Blend_Swapped(v0, v1, weight) ==
    RoundedProduct(v0, weight) + RoundedProduct(v1, WeightScale - weight)

Blend(v0, v1, weight) ==
    RoundedProduct(v0, WeightScale - weight) + RoundedProduct(v1, weight)

InterpolateSLPoint(start, end, weight) ==
    [s |-> Blend(start.s, end.s, weight), l |-> Blend(start.l, end.l, weight)]

----------------------------------------------------------------------------
(* GetPlanningState(): `static PlanningState state; return &state;`.  A    *)
(* function-local static is initialised on the first pass through its      *)
(* declaration; a thread that reaches the declaration while another is     *)
(* initialising it waits for the initialisation to complete.               *)

\* callers of GetPlanningState
NThreads == 2

Threads == 1..NThreads

\* the contents of PlanningState, abstracted to one counter 0..MaxField
MaxField == 2

\* cap on the constructor runs a behaviour may hold
MaxConstructions == 3

Unbuilt == [phase |-> "unbuilt", field |-> 0]

\* the guard never found set: every call runs the constructor
Initialized_Never(g) == FALSE

\* the guard test of the static's declaration
Initialized(g) == g = "done"

\* no caller is ever held back
Blocked_Never(g) == FALSE

\* a caller that finds the initialisation in progress is held back
Blocked(g) == g = "busy"

Call(t) ==
    /\ pc[t] = "idle"
    /\ pc' = [pc EXCEPT ![t] = "enter"]
    /\ UNCHANGED <<call, guard, constructed, state, ref, seen,
                   latest, enable_prediction, sink, dumps>>

\* the declaration is reached and found initialised
PassInitialized(t) ==
    /\ pc[t] = "enter"
    /\ Initialized(guard)
    /\ pc' = [pc EXCEPT ![t] = "return"]
    /\ UNCHANGED <<call, guard, constructed, state, ref, seen,
                   latest, enable_prediction, sink, dumps>>

\* the declaration is reached first: this caller starts the constructor
BeginConstruct(t) ==
    /\ pc[t] = "enter"
    /\ ~Initialized(guard)
    /\ ~Blocked(guard)
    /\ constructed < MaxConstructions
    /\ guard' = "busy"
    /\ state' = [phase |-> "partial", field |-> 0]
    /\ pc' = [pc EXCEPT ![t] = "construct"]
    /\ UNCHANGED <<call, constructed, ref, seen,
                   latest, enable_prediction, sink, dumps>>

\* the constructor completes
EndConstruct(t) ==
    /\ pc[t] = "construct"
    /\ state' = [phase |-> "built", field |-> 0]
    /\ constructed' = constructed + 1
    /\ guard' = "done"
    /\ pc' = [pc EXCEPT ![t] = "return"]
    /\ UNCHANGED <<call, ref, seen, latest, enable_prediction, sink, dumps>>

\* return &state: the caller holds the address and sees the instance
Return(t) ==
    /\ pc[t] = "return"
    /\ ref' = [ref EXCEPT ![t] = "state"]
    /\ seen' = [seen EXCEPT ![t] = state]
    /\ pc' = [pc EXCEPT ![t] = "idle"]
    /\ UNCHANGED <<call, guard, constructed, state,
                   latest, enable_prediction, sink, dumps>>

\* external planning logic writes the instance through a returned pointer
Mutate(t) ==
    /\ ref[t] = "state"
    /\ state' = [state EXCEPT !.field = (state.field + 1) % (MaxField + 1)]
    /\ UNCHANGED <<call, guard, constructed, pc, ref, seen,
                   latest, enable_prediction, sink, dumps>>

\* external planning logic reads the instance through a returned pointer
Read(t) ==
    /\ ref[t] = "state"
    /\ seen' = [seen EXCEPT ![t] = state]
    /\ UNCHANGED <<call, guard, constructed, state, pc, ref,
                   latest, enable_prediction, sink, dumps>>

----------------------------------------------------------------------------
(* DumpPlanningContext()                                                   *)

Feeds == {"localization", "chassis", "routing_response", "prediction"}

\* messages of a feed are numbered 0..MaxMsg
MaxMsg == 1

\* cap on the calls of DumpPlanningContext a behaviour may hold
MaxDumps == 2

Dumped(l, feed) == [feed |-> feed, msg |-> l[feed]]

\* the prediction feed dumped whatever the flag is
DumpedMessages_Always(l, flag) ==
    <<Dumped(l, "localization"), Dumped(l, "chassis"), Dumped(l, "routing_response"),
      Dumped(l, "prediction")>>

\* the DumpLatestMessage calls of one DumpPlanningContext, in order
DumpedMessages(l, flag) ==
    <<Dumped(l, "localization"), Dumped(l, "chassis"), Dumped(l, "routing_response")>>
    \o (IF flag THEN <<Dumped(l, "prediction")>> ELSE <<>>)

\* an adapter receives a newer message
Receive(feed) ==
    /\ latest[feed] < MaxMsg
    /\ latest' = [latest EXCEPT ![feed] = latest[feed] + 1]
    /\ UNCHANGED <<call, guard, constructed, state, pc, ref, seen,
                   enable_prediction, sink, dumps>>

DumpPlanningContext ==
    /\ dumps < MaxDumps
    /\ sink' = DumpedMessages(latest, enable_prediction)
    /\ dumps' = dumps + 1
    /\ UNCHANGED <<call, guard, constructed, state, pc, ref, seen,
                   latest, enable_prediction>>

----------------------------------------------------------------------------
(* The calls of the interpolators: inputs drawn from bounded sets.  Every  *)
(* call is self-contained, so a behaviour holds one call.                  *)

\* arc lengths of path points and queries: 0..MaxS
MaxS == 2

PathPoints ==
    [x : {0, 100}, y : {0}, theta : {0 - 300, 300, 400}, kappa : {0, 2},
     dkappa : {0, 1}, ddkappa : {0}, s : 0..MaxS]

\* relative times and query times: 0..MaxT
MaxT == 3

TrajectoryPoints ==
    [path_point : [x : {0}, y : {0}, theta : {0, 100}, kappa : {1},
                   dkappa : {0}, ddkappa : {0}, s : {0, 1, 8, NaN}],
     v : {2, 4}, a : {0, 1}, relative_time : 0..MaxT]

\* s and l of SL points: -MaxSL..MaxSL
MaxSL == 2

SLPoints == [s : (0 - MaxSL)..MaxSL, l : (0 - MaxSL)..MaxSL]

\* weights -1.0 .. 2.0
Weights == (0 - WeightScale)..(2 * WeightScale)

\* the calls that would fit the quintic over an empty domain (p0.s = p1.s = s)
\* are left out: they are outside the contract of the fit
CallInterpolatePathPoint ==
    /\ call.op = "none"
    /\ \E p0 \in PathPoints, p1 \in PathPoints, s \in 0..MaxS :
          /\ ~(p0.s = p1.s /\ s = p0.s)
          /\ call' = [op |-> "InterpolatePathPoint", p0 |-> p0, p1 |-> p1, s |-> s,
                      out |-> InterpolatePathPoint(p0, p1, s)]
    /\ UNCHANGED <<guard, constructed, state, pc, ref, seen,
                   latest, enable_prediction, sink, dumps>>

\* the two relative times are ordered; the query may lie up to one time unit
\* outside them (extrapolation)
CallInterpolateTrajectoryPoint ==
    /\ call.op = "none"
    /\ \E tp0 \in TrajectoryPoints, tp1 \in TrajectoryPoints, t \in 0..MaxT :
          /\ tp0.relative_time < tp1.relative_time
          /\ tp0.relative_time - 1 <= t
          /\ t <= tp1.relative_time + 1
          /\ call' = [op |-> "InterpolateTrajectoryPoint", tp0 |-> tp0, tp1 |-> tp1,
                      t |-> t, out |-> InterpolateTrajectoryPoint(tp0, tp1, t)]
    /\ UNCHANGED <<guard, constructed, state, pc, ref, seen,
                   latest, enable_prediction, sink, dumps>>

CallInterpolateSLPoint ==
    /\ call.op = "none"
    /\ \E start \in SLPoints, end \in SLPoints, weight \in Weights :
          call' = [op |-> "InterpolateSLPoint", start |-> start, end |-> end,
                   weight |-> weight, out |-> InterpolateSLPoint(start, end, weight)]
    /\ UNCHANGED <<guard, constructed, state, pc, ref, seen,
                   latest, enable_prediction, sink, dumps>>

----------------------------------------------------------------------------
(* Specifications *)

Init ==
    /\ call = [op |-> "none"]
    /\ guard = "uninit"
    /\ constructed = 0
    /\ state = Unbuilt
    /\ pc = [t \in Threads |-> "idle"]
    /\ ref = [t \in Threads |-> "null"]
    /\ seen = [t \in Threads |-> Unbuilt]
    /\ latest = [f \in Feeds |-> 0]
    /\ enable_prediction \in BOOLEAN
    /\ sink = <<>>
    /\ dumps = 0

NextRegistry ==
    \E t \in Threads :
        \/ Call(t)
        \/ PassInitialized(t)
        \/ BeginConstruct(t)
        \/ EndConstruct(t)
        \/ Return(t)
        \/ Mutate(t)
        \/ Read(t)

NextDump == (\E feed \in Feeds : Receive(feed)) \/ DumpPlanningContext

Next ==
    \/ CallInterpolatePathPoint
    \/ CallInterpolateTrajectoryPoint
    \/ CallInterpolateSLPoint
    \/ NextRegistry
    \/ NextDump

Spec == Init /\ [][Next]_vars

\* the interpolators, one specification for each (the flag plays no part)
InitInterpolate == Init /\ enable_prediction = FALSE

SpecPath == InitInterpolate /\ [][CallInterpolatePathPoint]_vars

SpecTraj == InitInterpolate /\ [][CallInterpolateTrajectoryPoint]_vars

SpecSL == InitInterpolate /\ [][CallInterpolateSLPoint]_vars

\* the registry under concurrent callers
SpecRegistry == InitInterpolate /\ [][NextRegistry]_vars

\* the diagnostic dump
SpecDump == Init /\ [][NextDump]_vars

----------------------------------------------------------------------------
(* Properties *)

IsPathCall == call.op = "InterpolatePathPoint"

IsTrajCall == call.op = "InterpolateTrajectoryPoint"

IsSLCall == call.op = "InterpolateSLPoint"

\* two finite values at least the tolerance apart
FarApart(a, b) == ~IsNaN(a) /\ ~IsNaN(b) /\ Abs(a - b) >= Eps

InHalfOpenTurn(theta) == 0 - PI < theta /\ theta <= PI

\* C1: with endpoints that are not degenerate (the two arc lengths, and the
\* estimated total arc length and tp0's arc length, at least 1e-4 apart), the
\* result's v is the value and its a the first derivative, at the query time, of
\* the cubic Hermite spline through (tp0.v, tp0.a) and (tp1.v, tp1.a); at
\* t = tp0.relative_time they are tp0.v and tp0.a.
C1_DynamicsFromSpline ==
    (/\ IsTrajCall
     /\ FarApart(call.tp0.path_point.s, call.tp1.path_point.s)
     /\ FarApart(TrajS1(call.tp0, call.tp1), call.tp0.path_point.s))
    => /\ call.out.tp.v = DynamicSpline(call.tp0, call.tp1, 0, call.t * Fine)
       /\ call.out.tp.a = DynamicSpline(call.tp0, call.tp1, 1, call.t * Fine)
       /\ (call.t = call.tp0.relative_time
           => call.out.tp.v = call.tp0.v /\ call.out.tp.a = call.tp0.a)

\* C2: when the two arc lengths are within 1e-4 of each other, the call returns
\* tp1 in every field, for every query time, and fits no spline.
C2_DegenerateSpanReturnsTp1 ==
    (IsTrajCall /\ AbsDiffLess(call.tp0.path_point.s, call.tp1.path_point.s, Eps))
    => call.out.tp = call.tp1 /\ call.out.fits = 0

\* a call with arc lengths different but within the tolerance, queried away from
\* tp1's time, that returned tp1
C2_Witness ==
    /\ IsTrajCall
    /\ call.tp0.path_point.s = 0
    /\ call.tp1.path_point.s = 1
    /\ call.t # call.tp1.relative_time
    /\ call.tp0.v # call.tp1.v
    /\ call.out.tp = call.tp1

\* C3: a query outside [p0.s, p1.s] ends in the fatal assertion, before any
\* spline is fitted and with no point returned; a query inside does not.
C3_RangeAssertion ==
    IsPathCall =>
       /\ (call.s < call.p0.s \/ call.s > call.p1.s)
          => /\ call.out.outcome = "fatal"
             /\ call.out.fits = 0
             /\ call.out.p = NoPoint
       /\ (call.p0.s <= call.s /\ call.s <= call.p1.s)
          => call.out.outcome = "returned" /\ call.out.p # NoPoint

\* a query above p1.s, with p0.s <= p1.s, that ended in the assertion
C3_Witness ==
    /\ IsPathCall
    /\ call.p0.s < call.p1.s
    /\ call.s > call.p1.s
    /\ call.out.outcome = "fatal"

SameGeometry(p, q) ==
    /\ p.x = q.x
    /\ p.y = q.y
    /\ p.theta = q.theta
    /\ p.kappa = q.kappa
    /\ p.dkappa = q.dkappa

ValidPathCall ==
    /\ IsPathCall
    /\ call.p0.s <= call.p1.s
    /\ InHalfOpenTurn(call.p0.theta)
    /\ InHalfOpenTurn(call.p1.theta)
    /\ call.out.outcome = "returned"

\* C4 as claimed: for valid p0, p1 the call at s = p0.s returns p0's x, y, theta,
\* kappa, dkappa and the call at s = p1.s returns p1's.
C4_BoundaryExactness ==
    ValidPathCall =>
       /\ call.s = call.p0.s => SameGeometry(call.out.p, call.p0)
       /\ call.s = call.p1.s => SameGeometry(call.out.p, call.p1)

\* C4 as amended: at s = p0.s the result has p0's x, y, theta, kappa, dkappa; at
\* s = p1.s it has p1's theta, kappa, dkappa, while its x and y are p0's moved
\* by the integrated heading, at most the arc length p1.s - p0.s away from p0.
C4_BoundaryExactnessAmended ==
    ValidPathCall =>
       /\ call.s = call.p0.s => SameGeometry(call.out.p, call.p0)
       /\ call.s = call.p1.s
          => /\ call.out.p.theta = call.p1.theta
             /\ call.out.p.kappa = call.p1.kappa
             /\ call.out.p.dkappa = call.p1.dkappa
             /\ Abs(call.out.p.x - call.p0.x) <= (call.p1.s - call.p0.s) * TrigScale
             /\ Abs(call.out.p.y - call.p0.y) <= (call.p1.s - call.p0.s) * TrigScale

\* a call at s = p1.s whose result has p1's heading and curvature but not p1's x
C4_Witness ==
    /\ ValidPathCall
    /\ call.s = call.p1.s
    /\ call.p0.theta # call.p1.theta
    /\ call.out.p.theta = call.p1.theta
    /\ call.out.p.kappa = call.p1.kappa
    /\ call.out.p.x # call.p1.x

UnitWeights == 0..WeightScale

\* s never moves against the direction from a.s to b.s, by more than slack,
\* when the weight grows from the call's to w2
MonotoneTo(w2, slack) ==
    LET later == InterpolateSLPoint(call.start, call.end, w2)
    IN  /\ call.start.s <= call.end.s => later.s >= call.out.s - slack
        /\ call.start.s >= call.end.s => later.s <= call.out.s + slack

\* C6 as claimed: weight 0 returns a, weight 1 returns b, and for w1 < w2 in
\* [0, 1] the result's s moves monotonically from a.s towards b.s.
C6_AffineMonotone ==
    IsSLCall =>
       /\ call.weight = 0 => call.out = call.start
       /\ call.weight = WeightScale => call.out = call.end
       /\ \A w2 \in UnitWeights :
             (call.weight \in UnitWeights /\ call.weight < w2) => MonotoneTo(w2, 0)

\* C6 as amended: weight 0 returns a, weight 1 returns b, every result is the
\* exact blend s0*(1-w) + s1*w (l likewise) to within the rounding of its two
\* products, for weights outside [0, 1] too, and for w1 < w2 in [0, 1] s moves
\* against the direction from a.s to b.s by no more than that rounding.
C6_AffineMonotoneUpToRounding ==
    IsSLCall =>
       /\ call.weight = 0 => call.out = call.start
       /\ call.weight = WeightScale => call.out = call.end
       /\ Abs(WeightScale * call.out.s
              - (call.start.s * (WeightScale - call.weight) + call.end.s * call.weight))
          <= WeightScale
       /\ Abs(WeightScale * call.out.l
              - (call.start.l * (WeightScale - call.weight) + call.end.l * call.weight))
          <= WeightScale
       /\ \A w2 \in UnitWeights :
             (call.weight \in UnitWeights /\ call.weight < w2) => MonotoneTo(w2, 2)

\* a blend strictly between two different points
C6_Witness ==
    /\ IsSLCall
    /\ call.start.s < call.end.s
    /\ 0 < call.weight
    /\ call.weight < WeightScale
    /\ call.start.s <= call.out.s
    /\ call.out.s <= call.end.s
    /\ call.out.s # call.start.s

\* C7: there is one PlanningState instance: the first call constructs it, a
\* later call neither constructs nor resets anything, and every caller holds the
\* address of that one instance, so what one writes the others read.
C7_SingleInstance ==
    /\ [](/\ constructed <= 1
          /\ \A t \in Threads : ref[t] # "null" => (ref[t] = "state" /\ constructed = 1))
    /\ [][(guard = "done" /\ pc' # pc) => (state' = state /\ constructed' = constructed)]_vars
    /\ [][\A t \in Threads : seen'[t] # seen[t] => seen'[t] = state]_vars

\* a write through one caller's pointer read through another caller's
C7_Witness ==
    \E t1, t2 \in Threads :
        /\ t1 # t2
        /\ ref[t1] = "state"
        /\ ref[t2] = "state"
        /\ constructed = 1
        /\ state.field = 1
        /\ seen[t2].field = 1
        /\ seen[t1].field = 0
        /\ seen[t1].phase = "built"

\* C8: a call of DumpPlanningContext dumps the latest localization, chassis and
\* routing-response messages, once each and in that order, then the latest
\* prediction message if and only if the flag is set, and nothing else.
C8_DumpOrder ==
    [][dumps' # dumps =>
         /\ Len(sink') = (IF enable_prediction THEN 4 ELSE 3)
         /\ sink'[1] = [feed |-> "localization", msg |-> latest["localization"]]
         /\ sink'[2] = [feed |-> "chassis", msg |-> latest["chassis"]]
         /\ sink'[3] = [feed |-> "routing_response", msg |-> latest["routing_response"]]
         /\ enable_prediction
            => sink'[4] = [feed |-> "prediction", msg |-> latest["prediction"]]]_vars

\* a dump with the flag clear, after newer messages arrived on every feed
C8_Witness ==
    /\ dumps > 0
    /\ ~enable_prediction
    /\ Len(sink) = 3
    /\ sink[1].msg = 1
    /\ sink[3].msg = 1
    /\ latest["prediction"] = 1

\* C9 as claimed: the construction is unguarded, so a caller that reaches the
\* declaration while another caller is constructing is not held back: it can
\* construct a second time or go on to return the unfinished instance.
C9_UnguardedConstruction ==
    \A t1, t2 \in Threads :
        (t1 # t2 /\ pc[t1] = "construct" /\ pc[t2] = "enter")
        => ENABLED (BeginConstruct(t2) \/ PassInitialized(t2))

\* C9 as amended: under concurrent first calls the instance is constructed once
\* and no caller returns or holds an instance whose construction is unfinished.
C9_GuardedConstruction ==
    /\ constructed <= 1
    /\ Cardinality({t \in Threads : pc[t] = "construct"}) <= 1
    /\ \A t \in Threads :
          /\ pc[t] = "return" => state.phase = "built"
          /\ ref[t] # "null" => (state.phase = "built" /\ seen[t].phase = "built")

\* two callers inside GetPlanningState before the first initialisation is done
C9_Witness ==
    \E t1, t2 \in Threads :
        /\ t1 # t2
        /\ pc[t1] = "construct"
        /\ pc[t2] = "enter"
        /\ constructed = 0

\* C10: whenever a new point is assembled (neither degeneracy check returned
\* tp1), its relative_time is the query time.
C10_RelativeTimeIsQuery ==
    (IsTrajCall /\ call.out.via = 146) => call.out.tp.relative_time = call.t

====
